---- MODULE Spec2Model ----
(***************************************************************************)
(* COSRedirector (src/index.js): an event emitter with two operations.     *)
(*   execCommandAndSendToCOS spawns a child process, registers the 'exit'  *)
(*   and 'error' handlers and hands the child's stdout to                  *)
(*   uploadStreamToCOS; uploadStreamToCOS optionally pipes the stream      *)
(*   through gzip, merges the caller's objects with extend() and calls     *)
(*   s3Conn.upload with a callback that emits upload_error or              *)
(*   upload_finish.                                                        *)
(*                                                                         *)
(* The caller's objects live in a heap, because extend(false, target, src) *)
(* copies src INTO target and returns target.  The child process, the      *)
(* source stream, zlib and the storage client are the environment: their   *)
(* steps are the actions that run the handlers the code registered.        *)
(***************************************************************************)
EXTENDS Integers, Sequences, FiniteSets, TLC

\* ------------------------------------------------------------------ bounds
\* Longest source output, counted in chunks as the stream delivers them.
MaxLen == 2

\* The invocations made on the one COSRedirector instance: two of them can
\* be in flight together.
Invocations == 1 .. 2

\* ------------------------------------------------------- program constants
\* index.js:98   {partSize: 10 * 1024 * 1024, queueSize: 10}
DefaultPartSize == 10 * 1024 * 1024
DefaultQueueSize == 10
Defaults == [partSize |-> DefaultPartSize, queueSize |-> DefaultQueueSize]

\* One chunk delivered by a stream stands for half a default part, so that a
\* bounded output can fill a part.
ChunkSize == DefaultPartSize \div 2

\* ------------------------------------------------------ the caller's inputs
\* README.md:36  bucket_options objects of the caller; b1 and b2 name
\* different keys of one bucket.
BucketRefs == {"b1", "b2"}
\* README.md:39  transfer_options objects of the caller: one that overrides
\* partSize only, and one with no override but another ManagedUpload option.
TransferRefs == {"tPart", "tOther"}
\* transfer_options not passed at all (undefined)
Absent == "absent"
\* the object extend() creates when its target is undefined
Fresh == "fresh"

CallerHeap ==
    [r \in BucketRefs \cup TransferRefs |->
        CASE r = "b1" -> [Bucket |-> "b", Key |-> "k1"]
          [] r = "b2" -> [Bucket |-> "b", Key |-> "k2"]
          [] r = "tPart" -> [partSize |-> 20 * 1024 * 1024]
          [] r = "tOther" -> [leavePartsOnError |-> TRUE]]

\* The caller's bucket objects are numbered in the order of their first use.
BucketArgs(n) == IF n = 0 THEN {"b1"} ELSE BucketRefs

\* Commands: one that is on the PATH and one the environment cannot start.
Commands == {"echo", "nonexistent"}
ExitCodes == {0, 1}

EmptyObject == [f \in {} |-> 0]
NoCall == [kind |-> "none"]
NoErr == "null"
NoProcess == [state |-> "none", code |-> 0]
NoUpload == [state |-> "none", err |-> NoErr, data |-> EmptyObject]

VARIABLES
    ncalls,     \* number of invocations made so far (1 .. ncalls are made)
    arg,        \* arg[i]: the arguments of invocation i
    heap,       \* the caller's objects, by reference
    fwd,        \* fwd[i]: what invocation i passed to s3Conn.upload
    proc,       \* proc[i]: the child process of invocation i
    src,        \* src[i]: the source stream of invocation i
    upl,        \* upl[i]: the managed upload of invocation i
    stored,     \* stored[i]: the object the upload of invocation i assembled
    sig,        \* sig[i]: the signals emitted for invocation i, in order
    uncaught    \* invocations whose stream 'error' event found no listener

vars == <<ncalls, arg, heap, fwd, proc, src, upl, stored, sig, uncaught>>

\* --------------------------------------------------------------- extend()
\* extend(false, target, source): every own field of source is assigned to
\* target, and target is returned.  An undefined target becomes {}.
Extend(target, source) ==
    [f \in (DOMAIN target) \cup (DOMAIN source) |->
        IF f \in DOMAIN source THEN source[f] ELSE target[f]]

\* The object a reference denotes when it is passed as extend's target.
Deref(h, ref) == IF ref = Absent THEN EmptyObject ELSE h[ref]
\* The reference extend returns: its target, or the object it created.
Returned(ref) == IF ref = Absent THEN Fresh ELSE ref
\* The heap after extend has written its target.
Written(h, ref, obj) == IF ref = Absent THEN h ELSE [h EXCEPT ![ref] = obj]

\* ------------------------------------------------------------------- zlib
\* createGzip(): a header, the data in an encoded form (here the difference
\* of each chunk to the one before it), and a trailer with the length,
\* written when the input has ended.
GzipHeader == <<31, 139>>

Delta(s) == [k \in 1 .. Len(s) |-> IF k = 1 THEN s[1] ELSE s[k] - s[k - 1]]

RECURSIVE Undelta(_)
Undelta(d) ==
    IF d = <<>> THEN <<>>
    ELSE LET front == Undelta(SubSeq(d, 1, Len(d) - 1))
         IN  Append(front, IF front = <<>> THEN d[Len(d)]
                           ELSE front[Len(front)] + d[Len(d)])

GzipStream(s, ended) ==
    GzipHeader \o Delta(s) \o (IF ended THEN <<Len(s)>> ELSE <<>>)

Gzip(s) == GzipStream(s, TRUE)

IsGzip(z) ==
    /\ Len(z) >= Len(GzipHeader) + 1
    /\ SubSeq(z, 1, Len(GzipHeader)) = GzipHeader
    /\ z[Len(z)] = Len(z) - Len(GzipHeader) - 1

Gunzip(z) == Undelta(SubSeq(z, Len(GzipHeader) + 1, Len(z) - 1))

\* ---------------------------------------------------- uploadStreamToCOS
SourceStream(i) == [kind |-> "source", id |-> i]
GzipStreamOf(i) == [kind |-> "gzip", id |-> i]

\* stream.pipe(gzip) returns its destination.
Pipe(stream, gzip) == gzip

\* index.js:94-96   readStream = compressed ? stream.pipe(gzip) : stream
ReadStreamNeverPiped(compressed, stream) == stream

ReadStream(compressed, stream) ==
    IF compressed THEN Pipe(stream, GzipStreamOf(stream.id)) ELSE stream

\* index.js:97   params = extend(false, bucket_options, {Body: readStream})
Params(h, b, readStream) == Extend(Deref(h, b), [Body |-> readStream])

\* index.js:98   options = extend(false, transfer_options, {partSize, queueSize})
OptionsDefaultsOnly(h, t) == Extend(EmptyObject, Defaults)

Options(h, t) == Extend(Deref(h, t), Defaults)

\* The state uploadStreamToCOS leaves behind for invocation i: both extends
\* write their targets, and s3Conn.upload(params, options, callback) starts a
\* managed upload that is pending until the callback runs.
StartUploadDeferred(i, b, t, compressed) ==
    LET readStream == ReadStream(compressed, SourceStream(i))
        params == Params(heap, b, readStream)
        options == Options(heap, t)
    IN  /\ heap' = Written(Written(heap, b, params), t, options)
        /\ fwd' = [fwd EXCEPT ![i] =
                      [params |-> params, options |-> options,
                       pref |-> Returned(b), oref |-> Returned(t)]]
        /\ upl' = upl

StartUpload(i, b, t, compressed) ==
    LET readStream == ReadStream(compressed, SourceStream(i))
        params == Params(heap, b, readStream)
        options == Options(heap, t)
    IN  /\ heap' = Written(Written(heap, b, params), t, options)
        /\ fwd' = [fwd EXCEPT ![i] =
                      [params |-> params, options |-> options,
                       pref |-> Returned(b), oref |-> Returned(t)]]
        /\ upl' = [upl EXCEPT ![i].state = "pending"]

\* ------------------------------------------------------------ the handlers
Signal(name, payload) == [name |-> name, payload |-> payload]

\* index.js:57-59   child_process.on('exit', code => emit('command_exit', code))
ExitHandler(code) == <<Signal("command_exit", [code |-> code])>>

\* index.js:61-63   child_process.on('error', err => emit('command_init_error', err))
ErrorHandlerDrops(err) == <<>>

ErrorHandlerAlsoExits(err) ==
    <<Signal("command_init_error", [err |-> err]),
      Signal("command_exit", [code |-> 1])>>

ErrorHandler(err) == <<Signal("command_init_error", [err |-> err])>>

\* index.js:100-106   the callback given to s3Conn.upload
UploadCallbackNoElse(err, data) ==
    (IF err # NoErr THEN <<Signal("upload_error", [err |-> err])>> ELSE <<>>)
        \o <<Signal("upload_finish", data)>>

UploadCallbackErrorOnly(err, data) ==
    IF err # NoErr THEN <<Signal("upload_error", [err |-> err])>> ELSE <<>>

UploadCallbackNewError(err, data) ==
    IF err # NoErr
    THEN <<Signal("upload_error", [err |-> "Error"])>>
    ELSE <<Signal("upload_finish", data)>>

UploadCallback(err, data) ==
    IF err # NoErr
    THEN <<Signal("upload_error", [err |-> err])>>
    ELSE <<Signal("upload_finish", data)>>

Emit(i, signals) == sig' = [sig EXCEPT ![i] = @ \o signals]

\* ------------------------------------------------------------------- Init
Init ==
    /\ ncalls = 0
    /\ arg = [i \in Invocations |-> NoCall]
    /\ heap = CallerHeap
    /\ fwd = [i \in Invocations |-> NoCall]
    /\ proc = [i \in Invocations |-> NoProcess]
    /\ src = [i \in Invocations |-> [state |-> "none", data |-> <<>>]]
    /\ upl = [i \in Invocations |-> NoUpload]
    /\ stored = [i \in Invocations |-> <<>>]
    /\ sig = [i \in Invocations |-> <<>>]
    /\ uncaught = {}

\* ------------------------------------------------------------- operations
\* index.js:53-66.  spawn() returns at once: a command the environment can
\* start is running with its stdout open; for one it cannot start the
\* 'error' event is queued and stdout never yields data or an end.
Spawned(command) == IF command = "nonexistent" THEN "failing" ELSE "running"

execCommandAndSendToCOSSyncError(command, b, t, compressed) ==
    /\ ncalls < Cardinality(Invocations)
    /\ LET i == ncalls + 1 IN
        /\ ncalls' = i
        /\ arg' = [arg EXCEPT ![i] =
                      [kind |-> "exec", command |-> command, bucket |-> b,
                       transfer |-> t, given |-> Deref(heap, t),
                       compressed |-> compressed]]
        /\ proc' = [proc EXCEPT ![i].state =
                       IF Spawned(command) = "failing" THEN "failed"
                       ELSE Spawned(command)]
        /\ src' = [src EXCEPT ![i] =
                      [state |-> IF Spawned(command) = "running"
                                 THEN "open" ELSE "stuck",
                       data |-> <<>>]]
        /\ StartUpload(i, b, t, compressed)
        /\ Emit(i, IF Spawned(command) = "failing"
                   THEN ErrorHandler("ENOENT") ELSE <<>>)
        /\ UNCHANGED <<stored, uncaught>>

execCommandAndSendToCOS(command, b, t, compressed) ==
    /\ ncalls < Cardinality(Invocations)
    /\ LET i == ncalls + 1 IN
        /\ ncalls' = i
        /\ arg' = [arg EXCEPT ![i] =
                      [kind |-> "exec", command |-> command, bucket |-> b,
                       transfer |-> t, given |-> Deref(heap, t),
                       compressed |-> compressed]]
        /\ proc' = [proc EXCEPT ![i].state = Spawned(command)]
        /\ src' = [src EXCEPT ![i] =
                      [state |-> IF Spawned(command) = "running"
                                 THEN "open" ELSE "stuck",
                       data |-> <<>>]]
        /\ StartUpload(i, b, t, compressed)
        /\ UNCHANGED <<stored, sig, uncaught>>

\* index.js:93-107, called by the user with a readable stream of their own.
uploadStreamToCOS(b, t, compressed) ==
    /\ ncalls < Cardinality(Invocations)
    /\ LET i == ncalls + 1 IN
        /\ ncalls' = i
        /\ arg' = [arg EXCEPT ![i] =
                      [kind |-> "upload", command |-> "", bucket |-> b,
                       transfer |-> t, given |-> Deref(heap, t),
                       compressed |-> compressed]]
        /\ src' = [src EXCEPT ![i] = [state |-> "open", data |-> <<>>]]
        /\ StartUpload(i, b, t, compressed)
        /\ UNCHANGED <<proc, stored, sig, uncaught>>

\* The 'exit' event of the child: the exit handler runs once.
ChildExitAfterUpload(i, code) ==
    /\ proc[i].state = "running"
    /\ src[i].state # "stuck"
    /\ upl[i].state = "done"
    /\ proc' = [proc EXCEPT ![i] = [state |-> "exited", code |-> code]]
    /\ Emit(i, ExitHandler(code))
    /\ UNCHANGED <<ncalls, arg, heap, fwd, src, upl, stored, uncaught>>

ChildExit(i, code) ==
    /\ proc[i].state = "running"
    /\ src[i].state # "stuck"
    /\ proc' = [proc EXCEPT ![i] = [state |-> "exited", code |-> code]]
    /\ Emit(i, ExitHandler(code))
    /\ UNCHANGED <<ncalls, arg, heap, fwd, src, upl, stored, uncaught>>

\* The 'error' event of a child that could not be started.
ChildError(i) ==
    /\ proc[i].state = "failing"
    /\ proc' = [proc EXCEPT ![i].state = "failed"]
    /\ Emit(i, ErrorHandler("ENOENT"))
    /\ UNCHANGED <<ncalls, arg, heap, fwd, src, upl, stored, uncaught>>

\* ------------------------------------------------------ the source stream
\* The k-th chunk of the output of invocation i.
Chunk(i, k) == 10 * i + k

SourceData(i) ==
    /\ src[i].state = "open"
    /\ Len(src[i].data) < MaxLen
    /\ src' = [src EXCEPT ![i].data = Append(@, Chunk(i, Len(@) + 1))]
    /\ UNCHANGED <<ncalls, arg, heap, fwd, proc, upl, stored, sig, uncaught>>

SourceEnd(i) ==
    /\ src[i].state = "open"
    /\ src' = [src EXCEPT ![i].state = "ended"]
    /\ UNCHANGED <<ncalls, arg, heap, fwd, proc, upl, stored, sig, uncaught>>

\* The child hangs: it neither exits nor closes its stdout, ever.
ChildHang(i) ==
    /\ proc[i].state = "running"
    /\ src[i].state = "open"
    /\ src' = [src EXCEPT ![i].state = "stuck"]
    /\ UNCHANGED <<ncalls, arg, heap, fwd, proc, upl, stored, sig, uncaught>>

\* The listeners for 'error' on the source stream: uploadStreamToCOS adds
\* none and neither does pipe(); the managed upload listens on its Body.
SourceErrorListened(i) == fwd[i].params.Body = SourceStream(i)

\* The source stream emits 'error'.
SourceError(i) ==
    /\ src[i].state = "open"
    /\ src' = [src EXCEPT ![i].state = "errored"]
    /\ uncaught' = IF SourceErrorListened(i) THEN uncaught
                   ELSE uncaught \cup {i}
    /\ UNCHANGED <<ncalls, arg, heap, fwd, proc, upl, stored, sig>>

\* ----------------------------------------------------- the managed upload
\* What the Body of invocation i has delivered so far.
BodyOut(i) ==
    LET body == fwd[i].params.Body
    IN  IF body.kind = "gzip"
        THEN GzipStream(src[body.id].data, src[body.id].state = "ended")
        ELSE src[body.id].data

BodyEnded(i) == src[fwd[i].params.Body.id].state = "ended"

\* pipe() does not forward 'error' to its destination.
BodyErrored(i) ==
    /\ fwd[i].params.Body.kind = "source"
    /\ src[fwd[i].params.Body.id].state = "errored"

\* The part size the managed upload works with: options.partSize, or its own
\* minimum part size when the options name none.
SdkPartSize(options) ==
    IF "partSize" \in DOMAIN options THEN options.partSize ELSE ChunkSize

\* The parameters a request needs.
SdkParamsValid(params) == {"Bucket", "Key", "Body"} \subseteq DOMAIN params

\* A part is sent when partSize bytes are buffered or the Body has ended;
\* a gzip stream delivers no more than it was fed.
RequestIssued(i) ==
    \/ BodyEnded(i)
    \/ Len(src[fwd[i].params.Body.id].data) * ChunkSize
           >= SdkPartSize(fwd[i].options)

\* The number of parts in flight the managed upload allows:
\* options.queueSize, or its own default when the options name none.
SdkQueueSize(options) ==
    IF "queueSize" \in DOMAIN options THEN options.queueSize ELSE 4

\* The number of delivered chunks that fill one part.
PartItems(options) ==
    LET n == SdkPartSize(options) \div ChunkSize
    IN  IF n < 1 THEN 1 ELSE n

\* The Body cut into parts of p items, the last one possibly shorter; the
\* k-th part carries part number k.
SplitParts(body, p) ==
    [k \in 1 .. ((Len(body) + p - 1) \div p) |->
        SubSeq(body, (k - 1) * p + 1,
               IF k * p < Len(body) THEN k * p ELSE Len(body))]

Perms(n) ==
    {o \in [1 .. n -> 1 .. n] :
        \A a, b \in 1 .. n : a # b => o[a] # o[b]}

\* The orders in which n part uploads can complete with at most q of them
\* in flight: parts are sent in sequence and a completion frees a slot, so
\* the k-th part to complete is one of the first k - 1 + q.
CompletionOrders(n, q) ==
    {o \in Perms(n) : \A k \in 1 .. n : o[k] < k + q}

\* The completed part uploads, in the order o in which they completed.
PartUploads(parts, o) ==
    [k \in 1 .. Len(parts) |-> [PartNumber |-> o[k], Body |-> parts[o[k]]]]

RECURSIVE JoinListed(_, _)
JoinListed(completed, n) ==
    IF n = 0 THEN <<>>
    ELSE JoinListed(completed, n - 1) \o completed[n].Body

AssembleInCompletionOrder(completed) == JoinListed(completed, Len(completed))

\* The object the completed multipart upload makes: the parts joined in
\* ascending part number.
RECURSIVE JoinByNumber(_, _)
JoinByNumber(completed, n) ==
    IF n = 0 THEN <<>>
    ELSE LET k == CHOOSE k \in 1 .. Len(completed) :
                      completed[k].PartNumber = n
         IN  JoinByNumber(completed, n - 1) \o completed[k].Body

AssembleParts(completed) == JoinByNumber(completed, Len(completed))

UploadData(params) ==
    [Location |-> <<params.Bucket, params.Key>>,
     ETag |-> "etag",
     Bucket |-> params.Bucket,
     Key |-> params.Key]

\* The managed upload ends and runs the callback with (err, data).
Complete(i, err, data) ==
    /\ upl' = [upl EXCEPT ![i] = [state |-> "done", err |-> err, data |-> data]]
    /\ Emit(i, UploadCallback(err, data))

\* The upload completes: callback(null, data).
UploadDone(i) ==
    /\ upl[i].state = "pending"
    /\ BodyEnded(i)
    /\ SdkParamsValid(fwd[i].params)
    /\ LET parts == SplitParts(BodyOut(i), PartItems(fwd[i].options))
       IN  \E o \in CompletionOrders(Len(parts),
                                     SdkQueueSize(fwd[i].options)) :
               stored' = [stored EXCEPT ![i] =
                             AssembleParts(PartUploads(parts, o))]
    /\ Complete(i, NoErr, UploadData(fwd[i].params))
    /\ UNCHANGED <<ncalls, arg, heap, fwd, proc, src, uncaught>>

\* The upload fails: callback(err), with the error of the Body or of a
\* request.
UploadFailTimeout(i) ==
    /\ upl[i].state = "pending"
    /\ \/ /\ BodyErrored(i)
          /\ Complete(i, "StreamError", EmptyObject)
       \/ /\ ~BodyErrored(i)
          /\ RequestIssued(i) \/ src[fwd[i].params.Body.id].state = "stuck"
          /\ Complete(i, IF RequestIssued(i) THEN "NetworkingError"
                         ELSE "TimeoutError", EmptyObject)
    /\ UNCHANGED <<ncalls, arg, heap, fwd, proc, src, stored, uncaught>>

UploadFail(i) ==
    /\ upl[i].state = "pending"
    /\ \/ /\ BodyErrored(i)
          /\ Complete(i, "StreamError", EmptyObject)
       \/ /\ ~BodyErrored(i)
          /\ RequestIssued(i)
          /\ Complete(i, "NetworkingError", EmptyObject)
    /\ UNCHANGED <<ncalls, arg, heap, fwd, proc, src, stored, uncaught>>

\* ------------------------------------------------------------------- Next
\* The steps of the program when the caller draws transfer_options from T.
NextWith(T) ==
    \/ \E c \in Commands, b \in BucketArgs(ncalls), t \in T, z \in BOOLEAN :
          execCommandAndSendToCOS(c, b, t, z)
    \/ \E b \in BucketArgs(ncalls), t \in T, z \in BOOLEAN :
          uploadStreamToCOS(b, t, z)
    \/ \E i \in Invocations, code \in ExitCodes : ChildExit(i, code)
    \/ \E i \in Invocations : ChildError(i)
    \/ \E i \in Invocations : SourceData(i)
    \/ \E i \in Invocations : SourceEnd(i)
    \/ \E i \in Invocations : ChildHang(i)
    \/ \E i \in Invocations : SourceError(i)
    \/ \E i \in Invocations : UploadDone(i)
    \/ \E i \in Invocations : UploadFail(i)

Next == NextWith(TransferRefs \cup {Absent})

Spec == Init /\ [][Next]_vars

\* The event loop runs a queued 'error' event, and the managed upload ends
\* once its Body has ended or failed.  Nothing makes the child process or
\* the source stream move.
Fairness ==
    \A i \in Invocations :
        /\ WF_vars(ChildError(i))
        /\ WF_vars(UploadDone(i) \/ UploadFail(i))

\* The runs that are checked for liveness: the caller passes no
\* transfer_options, which no step after the call reads.
FairNext == NextWith({Absent})

FairSpec == Init /\ [][FairNext]_vars /\ Fairness

\* ----------------------------------------------------------------- claims
Called(i) == i <= ncalls

\* How often signal `name` was emitted for invocation i.
Count(i, name) ==
    Cardinality({k \in 1 .. Len(sig[i]) : sig[i][k].name = name})

UploadSignals(i) == Count(i, "upload_finish") + Count(i, "upload_error")
CommandSignals(i) == Count(i, "command_exit") + Count(i, "command_init_error")

\* Some step of invocation i can still be taken.
CanStep(i) ==
    \/ ENABLED (\E code \in ExitCodes : ChildExit(i, code))
    \/ ENABLED ChildError(i)
    \/ ENABLED SourceData(i)
    \/ ENABLED SourceEnd(i)
    \/ ENABLED ChildHang(i)
    \/ ENABLED SourceError(i)
    \/ ENABLED UploadDone(i)
    \/ ENABLED UploadFail(i)

\* C1: the options forwarded to s3Conn.upload carry the caller's partSize and
\* queueSize where the caller gave them, and the defaults elsewhere.
C1_CallerFieldsTakePrecedence ==
    \A i \in Invocations :
        Called(i) =>
            LET given == arg[i].given
                options == fwd[i].options
            IN  /\ options.partSize =
                       IF "partSize" \in DOMAIN given THEN given.partSize
                       ELSE DefaultPartSize
                /\ options.queueSize =
                       IF "queueSize" \in DOMAIN given THEN given.queueSize
                       ELSE DefaultQueueSize

\* C2: with transfer_options absent or naming neither partSize nor
\* queueSize, the forwarded options have partSize 10 MiB and queueSize 10,
\* and every other field the caller gave is forwarded with its value.
C2_DefaultsWhenNoOverrides ==
    \A i \in Invocations :
        (Called(i) /\ {"partSize", "queueSize"} \cap DOMAIN arg[i].given = {}) =>
            LET options == fwd[i].options
            IN  /\ {"partSize", "queueSize"} \subseteq DOMAIN options
                /\ options.partSize = 10 * 1024 * 1024
                /\ options.queueSize = 10
                /\ \A f \in DOMAIN arg[i].given :
                       f \in DOMAIN options /\ options[f] = arg[i].given[f]

\* C2 witness: one call without transfer_options and one with an object that
\* names only another field have been made.
C2_Witness ==
    \E i, j \in Invocations :
        /\ Called(i) /\ arg[i].transfer = Absent
        /\ Called(j) /\ arg[j].transfer = "tOther"
        /\ fwd[j].options.leavePartsOnError

\* C3: for each invocation upload_finish and upload_error exclude each other
\* and at most one of them is emitted, once, also with two uploads in flight.
C3_UploadSignalAtMostOnce ==
    \A i \in Invocations : UploadSignals(i) <= 1

\* C3 witness: two uploads were in flight on the instance; the callback of
\* one has emitted upload_error and that of the other upload_finish.
C3_Witness ==
    \E i, j \in Invocations :
        /\ i # j
        /\ Count(i, "upload_error") = 1
        /\ Count(j, "upload_finish") = 1

SpawnFails(i) ==
    /\ Called(i)
    /\ arg[i].kind = "exec"
    /\ arg[i].command = "nonexistent"

Finished(i) == Count(i, "upload_finish") >= 1

\* C7: when an upload finishes, the object is the source output in order:
\* uncompressed, the Body is the source stream itself and the object is its
\* output; compressed, the Body is the gzip stream, the object is the gzip
\* of the output and gunzip gives the output back.  Outputs of length 0 are
\* included.
C7_ObjectIsSourceOutput ==
    \A i \in Invocations :
        Finished(i) =>
            IF arg[i].compressed
            THEN /\ fwd[i].params.Body = GzipStreamOf(i)
                 /\ stored[i] = Gzip(src[i].data)
                 /\ IsGzip(stored[i])
                 /\ Gunzip(stored[i]) = src[i].data
            ELSE /\ fwd[i].params.Body = SourceStream(i)
                 /\ stored[i] = src[i].data

\* C7 witness: a compressed upload of an output of two chunks and an
\* uncompressed upload of an empty output have both finished.
C7_Witness ==
    \E i, j \in Invocations :
        /\ Finished(i) /\ arg[i].compressed /\ Len(src[i].data) = 2
        /\ Finished(j) /\ ~arg[j].compressed /\ src[j].data = <<>>

\* C8: invocations share no mutable state: each uploads its own stream to
\* the target it was given, and the params and options objects it handed to
\* s3Conn.upload are not changed by another invocation, also when the
\* caller passes one object to both.
C8_NoSharedMutableState ==
    \A i \in Invocations :
        Called(i) =>
            /\ fwd[i].params.Body.id = i
            /\ fwd[i].params.Bucket = CallerHeap[arg[i].bucket].Bucket
            /\ fwd[i].params.Key = CallerHeap[arg[i].bucket].Key
            /\ heap[fwd[i].pref] = fwd[i].params
            /\ fwd[i].oref # Fresh => heap[fwd[i].oref] = fwd[i].options
            /\ \A j \in Invocations \ {i} :
                   Called(j) =>
                       /\ fwd[i].pref # fwd[j].pref
                       /\ fwd[i].oref = fwd[j].oref => fwd[i].oref = Fresh

\* C9: upload_error carries the error the callback was given, upload_finish
\* carries the callback's data, whose Bucket and Key are those of the target
\* of the invocation, and command_exit carries the exit status (0 for 0).
C9_PayloadUnchanged ==
    \A i \in Invocations :
        \A k \in 1 .. Len(sig[i]) :
            LET s == sig[i][k]
            IN  /\ s.name = "upload_error" =>
                       /\ upl[i].err # NoErr
                       /\ s.payload = [err |-> upl[i].err]
                /\ s.name = "upload_finish" =>
                       /\ s.payload = upl[i].data
                       /\ s.payload.Bucket = CallerHeap[arg[i].bucket].Bucket
                       /\ s.payload.Key = CallerHeap[arg[i].bucket].Key
                /\ s.name = "command_exit" =>
                       s.payload = [code |-> proc[i].code]

\* C9 witness: a process has exited with status 0 and its upload has
\* finished, and the upload of the other invocation has failed.
C9_Witness ==
    \E i, j \in Invocations :
        /\ proc[i].state = "exited" /\ proc[i].code = 0
        /\ Count(i, "command_exit") = 1
        /\ Count(i, "upload_finish") = 1
        /\ Count(j, "upload_error") = 1

\* C10: every failure reaches the caller as a signal: a failed spawn as
\* command_init_error, a failed upload or source stream as upload_error,
\* and none as an exception.
C10_FailuresAreSignalled ==
    /\ uncaught = {}
    /\ \A i \in Invocations :
           /\ proc[i].state = "failed" => Count(i, "command_init_error") = 1
           /\ (src[i].state = "errored" /\ ~CanStep(i)) =>
                  Count(i, "upload_error") = 1

\* C11: the bucket_options and transfer_options objects the caller passed
\* have, after any call, the fields and values they had before it.
C11_ArgumentsUnchanged ==
    \A r \in BucketRefs \cup TransferRefs : heap[r] = CallerHeap[r]

\* C12: execCommandAndSendToCOS hands the child's stdout to the upload in
\* the step that spawns the child, on every invocation: whenever an exec
\* invocation has been made its upload has been started on its own stdout,
\* whatever the child does later, and no command signal precedes that.
C12_UploadStartedWithSpawn ==
    \A i \in Invocations :
        (Called(i) /\ arg[i].kind = "exec") =>
            /\ upl[i].state \in {"pending", "done"}
            /\ fwd[i].params.Body.id = i
            /\ proc[i].state \in {"running", "failing"} =>
                   CommandSignals(i) = 0

\* C12 witness: one child is still running, has emitted no command signal
\* and its upload is pending with output already delivered; the other could
\* not be started and its upload is pending too.
C12_Witness ==
    \E i, j \in Invocations :
        /\ Called(i) /\ arg[i].kind = "exec" /\ proc[i].state = "running"
        /\ CommandSignals(i) = 0
        /\ upl[i].state = "pending" /\ Len(src[i].data) > 0
        /\ SpawnFails(j) /\ upl[j].state = "pending"

\* Signal a was emitted before signal b for invocation i.
Before(i, a, b) ==
    \E k, l \in 1 .. Len(sig[i]) :
        k < l /\ sig[i][k].name = a /\ sig[i][l].name = b

\* C13: command_exit and upload_finish of one invocation are not ordered:
\* the exit handler can run whether or not the upload has signalled, and
\* the upload can finish whether or not the exit handler has run.
C13_ExitAndFinishUnordered ==
    \A i \in Invocations :
        (Called(i) /\ arg[i].kind = "exec") =>
            /\ (proc[i].state = "running" /\ src[i].state # "stuck") =>
                   ENABLED (\E code \in ExitCodes : ChildExit(i, code))
            /\ (upl[i].state = "pending" /\ src[i].state = "ended") =>
                   ENABLED UploadDone(i)

\* C13 witness: both orders have happened: one invocation emitted
\* command_exit before upload_finish and the other upload_finish before
\* command_exit.
C13_Witness ==
    \E i, j \in Invocations :
        /\ Before(i, "command_exit", "upload_finish")
        /\ Before(j, "upload_finish", "command_exit")

\* The part lengths and queue sizes the reassembly is checked for.
MaxParts == Len(GzipHeader) + MaxLen + 1
PartLens == 1 .. (MaxLen + 1)
QueueSizes == 1 .. MaxParts

\* The completion orders of n parts with queue size q.
OrdersOf ==
    [n \in 0 .. MaxParts, q \in QueueSizes |-> CompletionOrders(n, q)]

\* Every output a source stream can have produced, and every Body made of
\* one.
SourceOutputs ==
    {[k \in 1 .. n |-> Chunk(i, k)] : i \in Invocations, n \in 0 .. MaxLen}

Bodies == SourceOutputs \cup {Gzip(s) : s \in SourceOutputs}

\* The objects a Body can be assembled to, over every part length, queue
\* size and completion order.
Objects(body) ==
    UNION {UNION {{AssembleParts(PartUploads(SplitParts(body, p), o)) :
                      o \in OrdersOf[Len(SplitParts(body, p)), q]} :
                  q \in QueueSizes} :
           p \in PartLens}

ObjectsOf == [body \in Bodies |-> Objects(body)]

\* C14: the object of a finished upload is the source output in the order
\* the source produced it, and cutting its Body into parts of any length,
\* with any queue size and any order of completion of the parts, assembles
\* to that object and to no other.
C14_ReassembledBySequence ==
    \A i \in Invocations :
        Finished(i) =>
            /\ (IF arg[i].compressed THEN Gunzip(stored[i]) ELSE stored[i])
                   = src[i].data
            /\ BodyOut(i) \in Bodies
            /\ ObjectsOf[BodyOut(i)] = {stored[i]}

\* C14 witness: an upload has finished whose Body made three parts that
\* could complete in more than one order.
C14_Witness ==
    \E i \in Invocations :
        /\ Finished(i)
        /\ Len(src[i].data) = MaxLen
        /\ LET parts == SplitParts(BodyOut(i), PartItems(fwd[i].options))
           IN  /\ Len(parts) >= 3
               /\ Cardinality(CompletionOrders(Len(parts),
                      SdkQueueSize(fwd[i].options))) >= 6

\* The process of invocation i was started and hangs: it does not exit and
\* its output stream never closes.
Hung(i) == proc[i].state = "running" /\ src[i].state = "stuck"

\* The step emits a signal for invocation i.
Emits(i) == sig'[i] # sig[i]

\* C15 as claimed: once the process of an invocation hangs, no step emits
\* upload_finish or upload_error for it.
C15_HungNeverSignals ==
    [][\A i \in Invocations :
          Hung(i) =>
              ~(/\ Emits(i)
                /\ sig'[i][Len(sig'[i])].name
                       \in {"upload_finish", "upload_error"})
      ]_vars

\* C15 amended: a hung invocation has not emitted upload_finish and never
\* does; a step emits upload_error for it only when a full part of output
\* had been delivered, so that a request was in flight that can fail; and
\* every step leaves the process running and its stream open.
C15_HungNeverFinishes ==
    [][\A i \in Invocations :
          Hung(i) =>
              /\ Count(i, "upload_finish") = 0
              /\ proc'[i] = proc[i] /\ src'[i] = src[i]
              /\ Emits(i) =>
                     /\ sig'[i] = Append(sig[i], sig'[i][Len(sig'[i])])
                     /\ sig'[i][Len(sig'[i])].name = "upload_error"
                     /\ UploadSignals(i) = 0
                     /\ Len(src[i].data) * ChunkSize
                            >= SdkPartSize(fwd[i].options)
      ]_vars

\* C15 witness: one invocation hangs after less than a part of output, has
\* emitted nothing and can take no step; another hangs after a full part
\* and its upload has failed.
C15_Witness ==
    \E i, j \in Invocations :
        /\ Hung(i) /\ Len(src[i].data) = 1
        /\ sig[i] = <<>> /\ upl[i].state = "pending" /\ ~CanStep(i)
        /\ Hung(j) /\ Len(src[j].data) = 2
        /\ Count(j, "upload_error") = 1

\* C16: no signal is emitted during a call: a step that emits a signal for an
\* invocation is a step after that invocation's call has returned, and it
\* is not the call of any invocation.
C16_NoSignalDuringCall ==
    [][\A i \in Invocations :
          Emits(i) => (Called(i) /\ ncalls' = ncalls)
      ]_vars

\* C16 witness: the call of one invocation has returned with its upload
\* under way and nothing emitted yet, and another invocation has emitted
\* both its command signal and its upload signal since its call.
C16_Witness ==
    \E i, j \in Invocations :
        /\ Called(i) /\ sig[i] = <<>>
        /\ upl[i].state = "pending" /\ Len(src[i].data) > 0
        /\ CommandSignals(j) = 1 /\ UploadSignals(j) = 1

====
